---- MODULE Spec2Model ----
(***************************************************************************)
(* A model of include/stringzilla/stringzilla.hpp: the small-buffer         *)
(* optimised owning string `basic_string` on top of the C string layer      *)
(* (`sz_string_t`, stringzilla.h) and of a stateless allocator.             *)
(*                                                                          *)
(* Memory is explicit.  Every string object owns an inline buffer `chars`;  *)
(* the allocator hands out numbered heap blocks.  A pointer is the address  *)
(* of the first byte of some object's inline buffer, the address of a heap  *)
(* block, or null.  Bytes are 0 (the terminating zero) and the characters   *)
(* of Char.  The sizes are scaled down: the inline buffer holds             *)
(* sz_string_stack_space = 3 bytes instead of 23.  A write past the end of  *)
(* a buffer is recorded (`overrun`) and its bytes are dropped.              *)
(*                                                                          *)
(* The same header's `character_set`, `string_view`, `matcher_find`,        *)
(* `range_matches` and `range_splits` are modelled as functions of byte     *)
(* sequences; a range is walked one iterator step at a time (variable vm).  *)
(***************************************************************************)
EXTENDS Integers, Sequences, FiniteSets, TLC

\* ------------------------------------------------------------------ bounds
\* Longest string (in bytes) an operation may leave behind.
MaxLen == 3
\* Longest view handed to a constructor, assign or append.
MaxView == 3
\* Heap blocks the allocator can have handed out at one time.
MaxBlocks == 3
\* Calls in one run of the two-string machine.
MaxCalls == 5
\* Longest haystack, needle and classified text of the view machine.
MaxHay == 4
MaxNeedle == 2
MaxText == 2

\* ------------------------------------------------------- program constants
\* sizeof the inline buffer `internal.chars` (sz_string_stack_space), scaled.
sz_string_stack_space == 3
\* The "until the end" count of clear(), erase() and of the expand offset.
sz_size_max == 255

Objs == {"a", "b"}
Blocks == 1..MaxBlocks
Char == {1, 2}
Byte == {0} \cup Char

Min(x, y) == IF x <= y THEN x ELSE y
Max(x, y) == IF x >= y THEN x ELSE y

RECURSIVE SeqsUpTo(_)
SeqsUpTo(n) ==
    IF n = 0 THEN {<< >>}
    ELSE LET S == SeqsUpTo(n - 1)
         IN  S \cup {Append(s, c) : s \in {t \in S : Len(t) = n - 1}, c \in Char}

\* The byte strings of at most n bytes over an alphabet.
RECURSIVE StringsOver(_, _)
StringsOver(alphabet, n) ==
    IF n = 0 THEN {<< >>}
    ELSE LET S == StringsOver(alphabet, n - 1)
         IN  S \cup {Append(s, c) : s \in {t \in S : Len(t) = n - 1}, c \in alphabet}

\* The views (borrowed byte sequences) the callers pass in.
Views == SeqsUpTo(MaxView)

\* ---------------------------------------------------------------- pointers
Null == [kind |-> "null", obj |-> "-", blk |-> 0]
StackPtr(o) == [kind |-> "stack", obj |-> o, blk |-> 0]
HeapPtr(b) == [kind |-> "heap", obj |-> "-", blk |-> b]

Zeros(n) == [i \in 1..n |-> 0]

\* sz_string_t after sz_string_init: start at the own buffer, all else zero.
EmptyString(o) ==
    [live |-> TRUE, start |-> StackPtr(o), length |-> 0, space |-> 0,
     chars |-> Zeros(sz_string_stack_space)]

\* Storage of an object that is not constructed (or was destroyed).
NoString == [live |-> FALSE, start |-> Null, length |-> 0, space |-> 0, chars |-> Zeros(sz_string_stack_space)]

FreeBlock == [used |-> FALSE, size |-> 0, bytes |-> << >>]

\* str: the string objects; heap: the allocator's blocks; last: the call
\* made last and not yet returned from; fuel: the calls a run may still
\* make (negative: no limit); vm: the call on a view, a character set or a
\* range, with the iterator walking the range.
VARIABLES str, heap, last, fuel, vm

vars == <<str, heap, last, fuel, vm>>

\* The memory an operation works on, with what it did to the allocator:
\* allocate and free calls, an allocation answered with null, writes past the
\* end of a buffer, frees of a block that is not allocated.
World(s, h) == [str |-> s, heap |-> h, allocs |-> 0, frees |-> 0, refused |-> FALSE, overrun |-> FALSE, badfree |-> FALSE]

\* The allocator's answer to one request: success or null, and the bytes an
\* uninitialised block happens to hold.
Junk == {0, 2}
Allocs == {[ok |-> FALSE, junk |-> 0]} \cup [ok : {TRUE}, junk : Junk]

\* ------------------------------------------------------------ raw memory
BufferAt(w, p) ==
    IF p.kind = "stack" THEN w.str[p.obj].chars
    ELSE IF p.kind = "heap" THEN w.heap[p.blk].bytes
    ELSE << >>

\* sz_copy(p + off, src, Len(src)): bytes that fall outside the buffer are
\* recorded as an overrun.
sz_copy(w, p, off, src) ==
    LET old == BufferAt(w, p)
        new == [j \in 1..Len(old) |-> IF j > off /\ j <= off + Len(src) THEN src[j - off] ELSE old[j]]
        w1  == IF p.kind = "stack" THEN [w EXCEPT !.str[p.obj].chars = new]
               ELSE IF p.kind = "heap" THEN [w EXCEPT !.heap[p.blk].bytes = new]
               ELSE w
    IN  IF Len(src) = 0 THEN w
        ELSE IF off + Len(src) > Len(old) THEN [w1 EXCEPT !.overrun = TRUE]
        ELSE w1

\* sz_fill(p + off, n, value)
sz_fill(w, p, off, n, value) == sz_copy(w, p, off, [i \in 1..n |-> value])

\* p[i] = value
Poke(w, p, i, value) == sz_copy(w, p, i, <<value>>)

\* allocator->allocate(n): the lowest free block, or null.
FreeBlocks(w) == {b \in Blocks : ~w.heap[b].used}
allocate(w, n, A) ==
    IF ~A.ok \/ FreeBlocks(w) = {} THEN [w |-> [w EXCEPT !.allocs = @ + 1, !.refused = TRUE], ptr |-> Null]
    ELSE LET b == CHOOSE x \in FreeBlocks(w) : \A y \in FreeBlocks(w) : x <= y
         IN  [w |-> [w EXCEPT !.allocs = @ + 1,
                              !.heap[b] = [used |-> TRUE, size |-> n, bytes |-> [i \in 1..n |-> A.junk]]],
              ptr |-> HeapPtr(b)]

\* allocator->free(p, n)
deallocate(w, p) ==
    IF p.kind = "heap" /\ w.heap[p.blk].used
        THEN [w EXCEPT !.frees = @ + 1, !.heap[p.blk] = FreeBlock]
        ELSE [w EXCEPT !.frees = @ + 1, !.badfree = TRUE]

\* ------------------------------------------------ the C string layer
sz_string_is_on_stack(w, o) == w.str[o].start = StackPtr(o)

sz_string_unpack(w, o) ==
    LET s == w.str[o]
        is_small == sz_string_is_on_stack(w, o)
    IN  [start |-> s.start, length |-> s.length,
         space |-> IF is_small THEN sz_string_stack_space ELSE s.space,
         is_external |-> ~is_small]

sz_string_init(w, o) == [w EXCEPT !.str[o] = EmptyString(o)]

\* sz_string_init_length: inline when length + 1 fits, else one allocation of
\* exactly length + 1 bytes; writes the terminating zero.
sz_string_init_length(w, o, length, A) ==
    LET space_needed == length + 1
        z == [w EXCEPT !.str[o] = [EmptyString(o) EXCEPT !.start = Null]]
    IN  IF space_needed <= sz_string_stack_space
        THEN LET w1 == [z EXCEPT !.str[o].start = StackPtr(o), !.str[o].length = length]
             IN  [w |-> Poke(w1, StackPtr(o), length, 0), ptr |-> StackPtr(o)]
        ELSE LET r == allocate(z, space_needed, A)
             IN  IF r.ptr = Null THEN [w |-> r.w, ptr |-> Null]
                 ELSE LET w1 == [r.w EXCEPT !.str[o].start = r.ptr, !.str[o].length = length,
                                            !.str[o].space = space_needed]
                      IN  [w |-> Poke(w1, r.ptr, length, 0), ptr |-> r.ptr]

\* sz_string_free: release the heap block, if any, and reset to empty.
sz_string_free(w, o) ==
    LET w1 == IF sz_string_is_on_stack(w, o) THEN w ELSE deallocate(w, w.str[o].start)
    IN  sz_string_init(w1, o)

\* sz_string_reserve: move the contents into a fresh block of new_capacity+1.
sz_string_reserve(w, o, new_capacity, A) ==
    LET new_space == new_capacity + 1
        u == sz_string_unpack(w, o)
    IN  IF new_space <= sz_string_stack_space THEN [w |-> w, ptr |-> u.start]
        ELSE LET r == allocate(w, new_space, A)
             IN  IF r.ptr = Null THEN [w |-> r.w, ptr |-> Null]
                 ELSE LET kept == SubSeq(BufferAt(w, u.start), 1, Min(u.length, Len(BufferAt(w, u.start))))
                          w1 == sz_copy(r.w, r.ptr, 0, kept)
                          w2 == [w1 EXCEPT !.str[o].start = r.ptr, !.str[o].space = new_space,
                                           !.str[o].length = u.length]
                          w3 == IF u.is_external THEN deallocate(w2, u.start) ELSE w2
                      IN  [w |-> w3, ptr |-> r.ptr]

\* The growth policy may over-allocate; the model takes the smallest block the
\* contract allows, so that every capacity boundary lies within the bounds.
GrowTo(needed, space) == needed

\* sz_string_expand(string, offset, added_length): make room for added_length
\* more bytes at offset (clamped to the length), grow the length by
\* added_length, terminate, and return the start -- or null, string untouched.
sz_string_expand(w, o, offset, added_length, A) ==
    LET u == sz_string_unpack(w, o)
        off == Min(offset, u.length)
        new_length == u.length + added_length
    IN  IF new_length < u.space
        THEN LET w1 == Poke(w, u.start, new_length, 0)
             IN  [w |-> [w1 EXCEPT !.str[o].length = new_length], ptr |-> u.start]
        ELSE LET r == sz_string_reserve(w, o, GrowTo(new_length + 1, u.space) - 1, A)
             IN  IF r.ptr = Null THEN [w |-> r.w, ptr |-> Null]
                 ELSE LET w1 == Poke(r.w, r.ptr, new_length, 0)
                      IN  [w |-> [w1 EXCEPT !.str[o].length = new_length], ptr |-> r.ptr]

\* sz_string_erase(string, offset, length): shift the tail left, in place.
sz_string_erase(w, o, offset, length) ==
    LET u == sz_string_unpack(w, o)
        off == Min(offset, u.length)
        n == Min(length, u.length - off)
        buf == BufferAt(w, u.start)
        tail == SubSeq(buf, off + n + 1, u.length)
        w1 == IF off + n < u.length THEN sz_copy(w, u.start, off, tail) ELSE w
        w2 == [w1 EXCEPT !.str[o].length = @ - n]
    IN  Poke(w2, u.start, u.length - n, 0)

\* sz_string_range: start and length.
sz_string_range(w, o) == [start |-> w.str[o].start, length |-> w.str[o].length]

\* ------------------------------------------------ basic_string (private)
is_internal(w, o) == sz_string_is_on_stack(w, o)

\* view(): the first `length` bytes behind the start pointer.
view(w, o) ==
    LET buf == BufferAt(w, w.str[o].start)
    IN  SubSeq(buf, 1, Min(sz_string_range(w, o).length, Len(buf)))

\* size(), data(), empty()
size(w, o) == Len(view(w, o))
data(w, o) == w.str[o].start

\* init(string_view): throws bad_alloc (ok = FALSE) when the block is refused.
init(w, o, other, A) ==
    LET r == sz_string_init_length(w, o, Len(other), A)
    IN  IF r.ptr = Null THEN [w |-> r.w, ok |-> FALSE]
        ELSE [w |-> sz_copy(r.w, r.ptr, 0, other), ok |-> TRUE]

\* move() without the re-pointing of an inline start.
move_keeps_start(w, o, other) == sz_string_init([w EXCEPT !.str[o] = w.str[other]], other)

\* move() that leaves the source as it was.
move_keeps_source(w, o, other) ==
    LET u == sz_string_unpack(w, other)
        w1 == [w EXCEPT !.str[o] = w.str[other]]
    IN  [w1 EXCEPT !.str[o].start = IF u.is_external THEN @ ELSE StackPtr(o)]

\* move(other): take the value bitwise, re-point an inline start at the own
\* buffer, reset the source.
move(w, o, other) ==
    LET u == sz_string_unpack(w, other)
        w1 == [w EXCEPT !.str[o] = w.str[other]]
        w2 == [w1 EXCEPT !.str[o].start = IF u.is_external THEN @ ELSE StackPtr(o)]
    IN  sz_string_init(w2, other)

\* -------------------------------------------------- basic_string (try_*)
try_resize(w, o, count, character, A) ==
    LET u0 == sz_string_unpack(w, o)
        r == IF count >= u0.space
             THEN sz_string_expand(w, o, sz_size_max, count, A)
             ELSE [w |-> w, ptr |-> u0.start]
    IN  IF r.ptr = Null THEN [w |-> r.w, ok |-> FALSE]
        ELSE LET u == sz_string_unpack(r.w, o)
             IN  IF count > u.length
                 THEN LET w1 == sz_fill(r.w, u.start, u.length, count - u.length, character)
                          w2 == Poke(w1, u.start, count, 0)
                      IN  [w |-> [w2 EXCEPT !.str[o].length = @ + (count - u.length)], ok |-> TRUE]
                 ELSE [w |-> sz_string_erase(r.w, o, count, sz_size_max), ok |-> TRUE]

\* try_assign() that does not test the pointer sz_string_expand returned.
try_assign_unchecked(w, o, other, A) ==
    LET rg == sz_string_range(w, o)
    IN  IF rg.length >= Len(other)
        THEN LET w1 == sz_string_erase(w, o, Len(other), sz_size_max)
             IN  [w |-> sz_copy(w1, rg.start, 0, other), ok |-> TRUE]
        ELSE LET r == sz_string_expand(w, o, sz_size_max, Len(other), A)
             IN  [w |-> sz_copy(r.w, r.ptr, 0, other), ok |-> TRUE]

try_assign(w, o, other, A) ==
    LET rg == sz_string_range(w, o)
    IN  IF rg.length >= Len(other)
        THEN LET w1 == sz_string_erase(w, o, Len(other), sz_size_max)
             IN  [w |-> sz_copy(w1, rg.start, 0, other), ok |-> TRUE]
        ELSE LET r == sz_string_expand(w, o, sz_size_max, Len(other), A)
             IN  IF r.ptr = Null THEN [w |-> r.w, ok |-> FALSE]
                 ELSE [w |-> sz_copy(r.w, r.ptr, 0, other), ok |-> TRUE]

\* try_push_back() writing one byte too far.
try_push_back_off_by_one(w, o, c, A) ==
    LET r == sz_string_expand(w, o, sz_size_max, 1, A)
    IN  IF r.ptr = Null THEN [w |-> r.w, ok |-> FALSE]
        ELSE [w |-> Poke(r.w, r.ptr, size(r.w, o), c), ok |-> TRUE]

try_push_back(w, o, c, A) ==
    LET r == sz_string_expand(w, o, sz_size_max, 1, A)
    IN  IF r.ptr = Null THEN [w |-> r.w, ok |-> FALSE]
        ELSE [w |-> Poke(r.w, r.ptr, size(r.w, o) - 1, c), ok |-> TRUE]

try_append(w, o, other, A) ==
    LET r == sz_string_expand(w, o, sz_size_max, 1, A)
    IN  IF r.ptr = Null THEN [w |-> r.w, ok |-> FALSE]
        ELSE [w |-> sz_copy(r.w, r.ptr, size(r.w, o) - 1, other), ok |-> TRUE]

\* ------------------------------------------------- basic_string (public)
\* The throwing forms: `threw` is std::bad_alloc leaving the call.
Throwing(r) == [w |-> r.w, ok |-> r.ok, threw |-> ~r.ok]
NoThrow(w) == [w |-> w, ok |-> TRUE, threw |-> FALSE]

assign(w, o, other, A) == Throwing(try_assign(w, o, other, A))
append(w, o, other, A) == Throwing(try_append(w, o, other, A))
push_back(w, o, c, A) == Throwing(try_push_back(w, o, c, A))
resize(w, o, count, character, A) == Throwing(try_resize(w, o, count, character, A))
\* erase() with its two arguments exchanged.
erase_swapped(w, o, pos, count) == NoThrow(sz_string_erase(w, o, count, pos))

clear(w, o) == NoThrow(sz_string_erase(w, o, 0, sz_size_max))
erase(w, o, pos, count) == NoThrow(sz_string_erase(w, o, pos, count))

\* basic_string(): the empty inline string.
default_ctor(w, o) == NoThrow([w EXCEPT !.str[o] = EmptyString(o)])

\* basic_string(string_view) and basic_string(basic_string const &): an
\* exception leaves no object behind.
view_ctor(w, o, other, A) ==
    LET r == init([w EXCEPT !.str[o].live = TRUE], o, other, A)
    IN  IF r.ok THEN Throwing(r) ELSE Throwing([r EXCEPT !.w.str[o] = NoString])
copy_ctor(w, o, other, A) == view_ctor(w, o, view(w, other), A)

\* basic_string(basic_string &&)
move_ctor(w, o, other) == NoThrow(move(w, o, other))

\* operator=(basic_string &&) that keeps the block the destination owns.
move_assign_leaks(w, o, other) == NoThrow(move(w, o, other))

\* operator=(basic_string &&)
move_assign(w, o, other) ==
    LET w1 == IF ~is_internal(w, o) THEN sz_string_free(w, o) ELSE w
    IN  NoThrow(move(w1, o, other))

\* operator=(basic_string const &)
copy_assign(w, o, other, A) == assign(w, o, view(w, other), A)

\* swap(basic_string &): std::swap(string_, other.string_) exchanges the two
\* sz_string_t byte for byte, the start pointers included.
swap(w, o, other) == NoThrow([w EXCEPT !.str[o] = w.str[other], !.str[other] = w.str[o]])

\* ~basic_string()
dtor(w, o) == NoThrow([sz_string_free(w, o) EXCEPT !.str[o] = NoString])

\* ------------------------------------------------------------ character_set
\* A character_set is its 256-slot bitset, written as the set of the bytes
\* whose bit is set.
AllBytes == 0..255

\* sz_u8_set_contains, sz_u8_set_invert on the bitset.
sz_u8_set_contains(set, c) == c \in set
sz_u8_set_invert(set) == AllBytes \ set

\* The bytes lo..hi in order, as an array initialiser.
Range(lo, hi) == [i \in 1..(hi - lo + 1) |-> lo + i - 1]

\* The alphabet arrays, by name.  None of them has a terminating zero.
alphabet(name) ==
    CASE name = "ascii_lowercase" -> Range(97, 122)
      [] name = "ascii_uppercase" -> Range(65, 90)
      [] name = "ascii_letters" -> Range(97, 122) \o Range(65, 90)
      [] name = "digits" -> Range(48, 57)
      [] name = "whitespaces" -> <<32, 9, 10, 13, 12, 11>>
      [] name = "ascii_printables" ->
             Range(48, 57) \o Range(97, 122) \o Range(65, 90)
                 \o Range(33, 47) \o Range(58, 64) \o Range(91, 96) \o Range(123, 126)
                 \o <<32, 9, 10, 13, 12, 11>>
      [] name = "ascii_controls" -> Range(0, 31) \o <<127>>
      [] name = "hexdigits" -> Range(48, 57) \o Range(97, 102) \o Range(65, 70)
      [] name = "octdigits" -> Range(48, 55)
      [] name = "punctuation" -> Range(33, 47) \o Range(58, 64) \o Range(91, 96) \o Range(123, 126)
      [] name = "newlines" -> <<10, 13, 12, 11, 28, 29, 30, 133>>
      [] name = "base64" -> Range(97, 122) \o Range(65, 90) \o Range(48, 57) \o <<43, 47>>

\* character_set(char const (&chars)[count_characters]): the loop stops at
\* count_characters - 1, so the last element of the array sets no bit.
character_set_of(chars) == {chars[i] : i \in 1..(Len(chars) - 1)}

\* ascii_letters_set .. base64_set: each is built from its array.
predefined_set(name) == character_set_of(alphabet(name))
Alphabets ==
    {"ascii_letters", "ascii_lowercase", "ascii_uppercase", "ascii_printables", "ascii_controls", "digits",
     "hexdigits", "octdigits", "punctuation", "whitespaces", "newlines", "base64"}

\* operator|: the union is built in `result`, and *this is returned.
operator_or(this, other) ==
    LET result == this \cup other
    IN  this

contains(set, c) == sz_u8_set_contains(set, c)
inverted(set) == sz_u8_set_invert(set)

\* -------------------------------------------------------------- string_view
\* A view is a start pointer and a length.  Every view the model handles
\* points into one buffer `buf`, so a pointer is an offset into buf (0 is its
\* first byte), or nullptr.
nullptr == -1
npos == sz_size_max

string_view(start, length) == [start |-> start, length |-> length]

\* The view of a whole buffer, and the bytes a view shows.
whole(buf) == string_view(0, Len(buf))
Bytes(buf, v) == IF v.start = nullptr THEN << >> ELSE SubSeq(buf, v.start + 1, v.start + v.length)

Minimum(S) == CHOOSE x \in S : \A y \in S : x <= y
Maximum(S) == CHOOSE x \in S : \A y \in S : x >= y

\* sz_find: the first place in [start, start + length) where the bytes of
\* the needle n stand, or null.
sz_find(buf, start, length, n) ==
    LET hits == {p \in start..(start + length - Len(n)) : SubSeq(buf, p + 1, p + Len(n)) = n}
    IN  IF start = nullptr \/ hits = {} THEN nullptr ELSE Minimum(hits)

\* sz_find_from_set, sz_find_last_from_set: the first (last) byte of
\* [start, start + length) that is in the set, or null.
sz_find_from_set(buf, start, length, set) ==
    LET hits == {p \in start..(start + length - 1) : sz_u8_set_contains(set, buf[p + 1])}
    IN  IF start = nullptr \/ hits = {} THEN nullptr ELSE Minimum(hits)

\* sz_find_last: the last place in [start, start + length) where the bytes of
\* the needle n stand, or null.
sz_find_last(buf, start, length, n) ==
    LET hits == {p \in start..(start + length - Len(n)) : SubSeq(buf, p + 1, p + Len(n)) = n}
    IN  IF start = nullptr \/ hits = {} THEN nullptr ELSE Maximum(hits)

sz_find_last_from_set(buf, start, length, set) ==
    LET hits == {p \in start..(start + length - 1) : sz_u8_set_contains(set, buf[p + 1])}
    IN  IF start = nullptr \/ hits = {} THEN nullptr ELSE Maximum(hits)

empty(v) == v.length = 0

\* size_type arithmetic wraps.
size_type(n) == n % (sz_size_max + 1)

\* remove_prefix(n), remove_suffix(n), and the assert(n <= size()) of both
remove_prefix(v, n) == string_view(v.start + n, v.length - n)
remove_suffix(v, n) == string_view(v.start, v.length - n)
in_bounds(v, n) == n <= v.length

\* substr(pos) and substr(pos, count)
substr_from(v, pos) == string_view(v.start + pos, v.length - pos)
substr(v, pos, count) == string_view(v.start + pos, Min(count, v.length - pos))

\* find(string_view)
find(buf, v, other) ==
    LET ptr == sz_find(buf, v.start, v.length, other)
    IN  IF ptr # nullptr THEN ptr - v.start ELSE npos

\* rfind(string_view)
rfind(buf, v, other) ==
    LET ptr == sz_find_last(buf, v.start, v.length, other)
    IN  IF ptr # nullptr THEN ptr - v.start ELSE npos

\* find(string_view, pos)
find_from(buf, v, other, pos) == find(buf, substr_from(v, pos), other)

\* find_first_of(character_set), which find(character_set) is, and
\* find_first_not_of(character_set)
find_first_of(buf, v, set) ==
    LET ptr == sz_find_from_set(buf, v.start, v.length, set)
    IN  IF ptr # nullptr THEN ptr - v.start ELSE npos

find_first_not_of(buf, v, set) == find_first_of(buf, v, inverted(set))

\* find_last_of(character_set)
find_last_of(buf, v, set) ==
    LET ptr == sz_find_last_from_set(buf, v.start, v.length, set)
    IN  IF ptr # nullptr THEN ptr - v.start ELSE npos

\* strip() that drops the prefix only.
strip_only_left(buf, v, set) ==
    LET new_start == sz_find_from_set(buf, v.start, v.length, inverted(set))
    IN  IF new_start # nullptr THEN string_view(new_start, v.length - (new_start - v.start))
        ELSE string_view(nullptr, 0)

\* strip
strip(buf, v, set) ==
    LET new_start == sz_find_from_set(buf, v.start, v.length, inverted(set))
    IN  IF new_start # nullptr
        THEN string_view(new_start,
                         sz_find_last_from_set(buf, new_start, v.length - (new_start - v.start), inverted(set))
                             - new_start + 1)
        ELSE string_view(nullptr, 0)

\* split_() whose `after` starts at the match.
split_keeps_match(v, pos, pattern_length) ==
    IF pos = npos THEN [before |-> v, match |-> string_view(nullptr, 0), after |-> string_view(nullptr, 0)]
    ELSE [before |-> substr(v, 0, pos), match |-> substr(v, pos, pattern_length), after |-> substr_from(v, pos)]

\* split_(pattern, pattern_length); pos is what find(pattern) returned.
split_(v, pos, pattern_length) ==
    IF pos = npos THEN [before |-> v, match |-> string_view(nullptr, 0), after |-> string_view(nullptr, 0)]
    ELSE [before |-> substr(v, 0, pos), match |-> substr(v, pos, pattern_length),
          after |-> substr_from(v, pos + pattern_length)]

\* partition(string_view), partition(character_set)
partition(buf, v, pattern) == split_(v, find(buf, v, pattern), Len(pattern))
partition_set(buf, v, pattern) == split_(v, find_first_of(buf, v, pattern), 1)

\* rpartition(string_view), rpartition(character_set): both call split_.
rpartition(buf, v, pattern) == split_(v, find(buf, v, pattern), Len(pattern))
rpartition_set(buf, v, pattern) == split_(v, find_first_of(buf, v, pattern), 1)

\* basic_string::rpartition: view().partition(pattern)
string_rpartition(buf, v, pattern) == partition(buf, v, pattern)

\* contains_only
contains_only(buf, v, set) == find_first_not_of(buf, v, set) = npos
Predicates == {"isalpha", "isalnum", "isascii", "isdigit", "islower", "isprintable", "isspace", "isupper"}

\* isalpha() .. isupper()
classify(predicate, buf, v) ==
    CASE predicate = "isalpha" -> ~empty(v) /\ contains_only(buf, v, predefined_set("ascii_letters"))
      [] predicate = "isalnum" ->
             ~empty(v) /\ contains_only(buf, v, operator_or(predefined_set("ascii_letters"), predefined_set("digits")))
      [] predicate = "isascii" ->
             empty(v) \/ contains_only(buf, v, operator_or(predefined_set("ascii_controls"),
                                                           predefined_set("ascii_printables")))
      [] predicate = "isdigit" -> ~empty(v) /\ contains_only(buf, v, predefined_set("digits"))
      [] predicate = "islower" -> ~empty(v) /\ contains_only(buf, v, predefined_set("ascii_lowercase"))
      [] predicate = "isprintable" -> empty(v) \/ contains_only(buf, v, predefined_set("ascii_printables"))
      [] predicate = "isspace" -> ~empty(v) /\ contains_only(buf, v, predefined_set("whitespaces"))
      [] predicate = "isupper" -> ~empty(v) /\ contains_only(buf, v, predefined_set("ascii_uppercase"))

\* ----------------------------------------------------------------- matchers
\* matcher_find that searches on one byte after every match.
matcher_find_always_overlaps(needle, allow_overlaps) ==
    [kind |-> "find", needle |-> needle, skip_after_match |-> 1]

\* matcher_find(needle, allow_overlaps)
matcher_find(needle, allow_overlaps) ==
    [kind |-> "find", needle |-> needle, skip_after_match |-> IF allow_overlaps THEN 1 ELSE Len(needle)]

\* matcher_rfind(needle, allow_overlaps)
matcher_rfind(needle, allow_overlaps) ==
    [kind |-> "rfind", needle |-> needle, skip_after_match |-> IF allow_overlaps THEN 1 ELSE Len(needle)]

\* matcher_find_first_of<string_view>(set), matcher_find_last_of<string_view>(set)
matcher_find_first_of(set) == [kind |-> "find_first_of", needles_set |-> set]
matcher_find_last_of(set) == [kind |-> "find_last_of", needles_set |-> set]

\* needle_length(), skip_length(): the constant 1 in the character matchers
needle_length(m) == IF m.kind \in {"find", "rfind"} THEN Len(m.needle) ELSE 1
skip_length(m) == IF m.kind \in {"find", "rfind"} THEN m.skip_after_match ELSE 1

\* matcher_(haystack)
match(buf, m, haystack) ==
    CASE m.kind = "find" -> find(buf, haystack, m.needle)
      [] m.kind = "rfind" -> rfind(buf, haystack, m.needle)
      [] m.kind = "find_first_of" -> find_first_of(buf, haystack, m.needles_set)
      [] m.kind = "find_last_of" -> find_last_of(buf, haystack, m.needles_set)

\* ---------------------------------------------------- range_matches, _splits
\* An iterator of any of the four ranges; the match ranges use `remaining`
\* only.  `asserted` tells that an assert(n <= size()) failed in a
\* remove_prefix or remove_suffix the iterator made.
NoIterator ==
    [remaining |-> string_view(nullptr, 0), length_within_remaining |-> 0, reached_tail |-> FALSE,
     asserted |-> FALSE]

\* range_matches::begin(): iterator(haystack, matcher)
matches_begin(buf, haystack, m) ==
    LET position == match(buf, m, haystack)
        n == IF position # npos THEN position ELSE haystack.length
    IN  [NoIterator EXCEPT !.remaining = remove_prefix(haystack, n), !.asserted = ~in_bounds(haystack, n)]

\* operator*, operator++, operator!=(iterator) of range_matches::iterator
matches_deref(m, it) == substr(it.remaining, 0, needle_length(m))

matches_next(buf, m, it) ==
    LET skipped == remove_prefix(it.remaining, skip_length(m))
        position == match(buf, m, skipped)
        n == IF position # npos THEN position ELSE skipped.length
    IN  [it EXCEPT !.remaining = remove_prefix(skipped, n),
                   !.asserted = @ \/ ~in_bounds(it.remaining, skip_length(m)) \/ ~in_bounds(skipped, n)]

matches_ne(it, other) == it.remaining.start # other.remaining.start

\* operator==(end_sentinel_type) of range_matches and range_rmatches iterators
matches_eq_sentinel(it) == empty(it.remaining)

\* range_matches::end(): the same iterator on the empty view at the end
matches_end(buf, haystack, m) == matches_begin(buf, string_view(haystack.start + haystack.length, 0), m)

\* range_splits::begin(): iterator(haystack, matcher)
splits_begin(buf, haystack, m) ==
    LET position == match(buf, m, haystack)
    IN  [remaining |-> haystack,
         length_within_remaining |-> IF position # npos THEN position ELSE haystack.length,
         reached_tail |-> FALSE, asserted |-> FALSE]

\* range_splits::end(): iterator(haystack.end(), matcher, end_sentinel), which
\* leaves length_within_remaining_ unset; nothing reads it.
splits_end(haystack) ==
    [remaining |-> string_view(haystack.start + haystack.length, 0), length_within_remaining |-> 0,
     reached_tail |-> TRUE, asserted |-> FALSE]

splits_deref(it) == substr(it.remaining, 0, it.length_within_remaining)

\* operator++ that steps over skip_length() bytes instead of the delimiter.
splits_next_skips_one(buf, m, it) ==
    LET dropped == remove_prefix(it.remaining, it.length_within_remaining)
        tail == empty(dropped)
        n == IF tail THEN 0 ELSE skip_length(m)
        rest == remove_prefix(dropped, n)
        position == match(buf, m, rest)
    IN  [remaining |-> rest,
         length_within_remaining |-> IF position # npos THEN position ELSE rest.length,
         reached_tail |-> tail,
         asserted |-> it.asserted \/ ~in_bounds(it.remaining, it.length_within_remaining) \/ ~in_bounds(dropped, n)]

\* operator++ that sets reached_tail_ after it stepped over the delimiter.
splits_next_tail_late(buf, m, it) ==
    LET dropped == remove_prefix(it.remaining, it.length_within_remaining)
        n == IF empty(dropped) THEN 0 ELSE needle_length(m)
        rest == remove_prefix(dropped, n)
        position == match(buf, m, rest)
    IN  [remaining |-> rest,
         length_within_remaining |-> IF position # npos THEN position ELSE rest.length,
         reached_tail |-> empty(rest),
         asserted |-> it.asserted \/ ~in_bounds(it.remaining, it.length_within_remaining) \/ ~in_bounds(dropped, n)]

\* range_splits::iterator::operator++
splits_next(buf, m, it) ==
    LET dropped == remove_prefix(it.remaining, it.length_within_remaining)
        tail == empty(dropped)
        n == IF tail THEN 0 ELSE needle_length(m)
        rest == remove_prefix(dropped, n)
        position == match(buf, m, rest)
    IN  [remaining |-> rest,
         length_within_remaining |-> IF position # npos THEN position ELSE rest.length,
         reached_tail |-> tail,
         asserted |-> it.asserted \/ ~in_bounds(it.remaining, it.length_within_remaining) \/ ~in_bounds(dropped, n)]

\* operator!= that compares the positions only.
splits_ne_ignores_tail(it, other) == it.remaining.start # other.remaining.start

\* range_splits::iterator::operator!=(iterator)
splits_ne(it, other) ==
    (it.remaining.start # other.remaining.start) \/ (it.reached_tail # other.reached_tail)

\* operator==(end_sentinel_type) of range_splits and range_rsplits iterators
splits_eq_sentinel(it) == empty(it.remaining) /\ it.reached_tail

\* range_splits::empty()
splits_empty == FALSE

\* ------------------------------------------------- range_rmatches, _rsplits
\* range_rmatches::begin(): iterator(haystack, matcher)
rmatches_begin(buf, haystack, m) ==
    LET position == match(buf, m, haystack)
        n == IF position # npos THEN size_type(haystack.length - position - needle_length(m)) ELSE haystack.length
    IN  [NoIterator EXCEPT !.remaining = remove_suffix(haystack, n), !.asserted = ~in_bounds(haystack, n)]

\* operator*, operator++, operator!=(iterator) of range_rmatches::iterator
rmatches_deref(m, it) == substr_from(it.remaining, size_type(it.remaining.length - needle_length(m)))

\* operator++ that steps over the whole match whatever skip_length() is.
rmatches_next_skips_match(buf, m, it) ==
    LET skipped == remove_suffix(it.remaining, needle_length(m))
        position == match(buf, m, skipped)
        n == IF position # npos THEN size_type(skipped.length - position - needle_length(m)) ELSE skipped.length
    IN  [it EXCEPT !.remaining = remove_suffix(skipped, n),
                   !.asserted = @ \/ ~in_bounds(it.remaining, needle_length(m)) \/ ~in_bounds(skipped, n)]

rmatches_next(buf, m, it) ==
    LET skipped == remove_suffix(it.remaining, skip_length(m))
        position == match(buf, m, skipped)
        n == IF position # npos THEN size_type(skipped.length - position - needle_length(m)) ELSE skipped.length
    IN  [it EXCEPT !.remaining = remove_suffix(skipped, n),
                   !.asserted = @ \/ ~in_bounds(it.remaining, skip_length(m)) \/ ~in_bounds(skipped, n)]

rmatches_ne(it, other) == it.remaining.start + it.remaining.length # other.remaining.start + other.remaining.length

\* range_rmatches::end(): the same iterator on the empty view at the start
rmatches_end(buf, haystack, m) == rmatches_begin(buf, string_view(haystack.start, 0), m)

\* The constructor that counts the delimiter into the first gap.
rsplits_begin_keeps_delimiter(buf, haystack, m) ==
    LET position == match(buf, m, haystack)
    IN  [remaining |-> haystack,
         length_within_remaining |-> IF position # npos THEN size_type(haystack.length - position) ELSE haystack.length,
         reached_tail |-> FALSE, asserted |-> FALSE]

\* range_rsplits::begin(): iterator(haystack, matcher)
rsplits_begin(buf, haystack, m) ==
    LET position == match(buf, m, haystack)
    IN  [remaining |-> haystack,
         length_within_remaining |->
             IF position # npos THEN size_type(haystack.length - position - needle_length(m)) ELSE haystack.length,
         reached_tail |-> FALSE, asserted |-> FALSE]

\* range_rsplits::end(): iterator(haystack.begin(), matcher, end_sentinel),
\* which leaves length_within_remaining_ unset; nothing reads it.
rsplits_end(haystack) ==
    [remaining |-> string_view(haystack.start, 0), length_within_remaining |-> 0, reached_tail |-> TRUE,
     asserted |-> FALSE]

rsplits_deref(it) == substr_from(it.remaining, size_type(it.remaining.length - it.length_within_remaining))

\* operator++ that steps over a delimiter also when the gap reached the start.
rsplits_next_always_steps(buf, m, it) ==
    LET dropped == remove_suffix(it.remaining, it.length_within_remaining)
        tail == empty(dropped)
        n == needle_length(m)
        rest == remove_suffix(dropped, n)
        position == match(buf, m, rest)
    IN  [remaining |-> rest,
         length_within_remaining |->
             IF position # npos THEN size_type(rest.length - position - needle_length(m)) ELSE rest.length,
         reached_tail |-> tail,
         asserted |-> it.asserted \/ ~in_bounds(it.remaining, it.length_within_remaining) \/ ~in_bounds(dropped, n)]

\* range_rsplits::iterator::operator++
rsplits_next(buf, m, it) ==
    LET dropped == remove_suffix(it.remaining, it.length_within_remaining)
        tail == empty(dropped)
        n == IF tail THEN 0 ELSE needle_length(m)
        rest == remove_suffix(dropped, n)
        position == match(buf, m, rest)
    IN  [remaining |-> rest,
         length_within_remaining |->
             IF position # npos THEN size_type(rest.length - position - needle_length(m)) ELSE rest.length,
         reached_tail |-> tail,
         asserted |-> it.asserted \/ ~in_bounds(it.remaining, it.length_within_remaining) \/ ~in_bounds(dropped, n)]

\* operator!= that compares the ends only.
rsplits_ne_ignores_tail(it, other) ==
    it.remaining.start + it.remaining.length # other.remaining.start + other.remaining.length

\* range_rsplits::iterator::operator!=(iterator)
rsplits_ne(it, other) ==
    \/ it.remaining.start + it.remaining.length # other.remaining.start + other.remaining.length
    \/ it.reached_tail # other.reached_tail

\* The four range classes, and their members by class.
Ranges == {"matches", "rmatches", "splits", "rsplits"}

range_begin(range, buf, haystack, m) ==
    CASE range = "matches" -> matches_begin(buf, haystack, m)
      [] range = "rmatches" -> rmatches_begin(buf, haystack, m)
      [] range = "splits" -> splits_begin(buf, haystack, m)
      [] range = "rsplits" -> rsplits_begin(buf, haystack, m)

range_end(range, buf, haystack, m) ==
    CASE range = "matches" -> matches_end(buf, haystack, m)
      [] range = "rmatches" -> rmatches_end(buf, haystack, m)
      [] range = "splits" -> splits_end(haystack)
      [] range = "rsplits" -> rsplits_end(haystack)

deref(range, m, it) ==
    CASE range = "matches" -> matches_deref(m, it)
      [] range = "rmatches" -> rmatches_deref(m, it)
      [] range = "splits" -> splits_deref(it)
      [] range = "rsplits" -> rsplits_deref(it)

increment(range, buf, m, it) ==
    CASE range = "matches" -> matches_next(buf, m, it)
      [] range = "rmatches" -> rmatches_next(buf, m, it)
      [] range = "splits" -> splits_next(buf, m, it)
      [] range = "rsplits" -> rsplits_next(buf, m, it)

not_equal(range, it, other) ==
    CASE range = "matches" -> matches_ne(it, other)
      [] range = "rmatches" -> rmatches_ne(it, other)
      [] range = "splits" -> splits_ne(it, other)
      [] range = "rsplits" -> rsplits_ne(it, other)

equals_sentinel(range, it) ==
    IF range \in {"matches", "rmatches"} THEN matches_eq_sentinel(it) ELSE splits_eq_sentinel(it)

\* to(container): for (auto match : *this) container.push_back(match)
RECURSIVE to(_, _, _, _, _)
to(range, buf, m, it, end) ==
    IF not_equal(range, it, end) THEN <<deref(range, m, it)>> \o to(range, buf, m, increment(range, buf, m, it), end)
    ELSE << >>

\* The view machine at rest: no call made.
NoScan ==
    [op |-> "none", range |-> "none", buf |-> << >>, needle |-> << >>, set |-> {}, other |-> {}, pos |-> 0, overlap |-> FALSE,
     m |-> matcher_find(<< >>, TRUE), it |-> NoIterator, end |-> NoIterator, out |-> << >>, done |-> FALSE,
     index |-> 0, part |-> split_(string_view(nullptr, 0), npos, 0), first |-> string_view(nullptr, 0), slice |-> string_view(nullptr, 0), truth |-> FALSE, cs |-> {}]

\* ------------------------------------------------------------- the machine
Live(o) == str[o].live
Now == World(str, heap)

NoLast ==
    [op |-> "none", tgt |-> "-", src |-> "-", arg |-> << >>, pos |-> 0, count |-> 0, fill |-> 0,
     ok |-> TRUE, threw |-> FALSE, allocs |-> 0, frees |-> 0, refused |-> FALSE, overrun |-> FALSE,
     badfree |-> FALSE,
     pre |-> [o \in Objs |-> NoString], was |-> [o \in Objs |-> << >>]]

Init ==
    /\ str = [o \in Objs |-> NoString]
    /\ heap = [b \in Blocks |-> FreeBlock]
    /\ last = NoLast
    /\ fuel = -1
    /\ vm = NoScan

\* One call, made when no call is pending: its effect on memory, and a record
\* of the call, its arguments, its outcome and the values and fields of every
\* string before it.
Step(r, call) ==
    /\ last.op = "none"
    /\ fuel # 0
    /\ fuel' = IF fuel < 0 THEN fuel ELSE fuel - 1
    /\ \A o \in Objs : r.w.str[o].length <= MaxLen
    /\ \A b \in Blocks : r.w.heap[b].size <= MaxLen + 1
    /\ str' = r.w.str
    /\ heap' = r.w.heap
    /\ last' = [NoLast EXCEPT !.op = call.op, !.tgt = call.tgt, !.src = call.src, !.arg = call.arg,
                              !.pos = call.pos, !.count = call.count, !.fill = call.fill,
                              !.ok = r.ok, !.threw = r.threw,
                              !.allocs = r.w.allocs, !.frees = r.w.frees, !.refused = r.w.refused,
                              !.overrun = r.w.overrun, !.badfree = r.w.badfree,
                              !.pre = str, !.was = [o \in Objs |-> view(Now, o)]]
    /\ UNCHANGED vm

Call(op, tgt) == [op |-> op, tgt |-> tgt, src |-> "-", arg |-> << >>, pos |-> 0, count |-> 0, fill |-> 0]

DefaultConstruct(o) ==
    /\ ~Live(o)
    /\ Step(default_ctor(Now, o), Call("ctor", o))

ViewConstruct(o, S, A) ==
    /\ ~Live(o)
    /\ Step(view_ctor(Now, o, S, A), [Call("view_ctor", o) EXCEPT !.arg = S])

CopyConstruct(o, other, A) ==
    /\ ~Live(o) /\ Live(other)
    /\ Step(copy_ctor(Now, o, other, A), [Call("copy_ctor", o) EXCEPT !.src = other])

MoveConstruct(o, other) ==
    /\ ~Live(o) /\ Live(other)
    /\ Step(move_ctor(Now, o, other), [Call("move_ctor", o) EXCEPT !.src = other])

CopyAssign(o, other, A) ==
    /\ Live(o) /\ Live(other) /\ o # other
    /\ Step(copy_assign(Now, o, other, A), [Call("copy_assign", o) EXCEPT !.src = other])

MoveAssign(o, other) ==
    /\ Live(o) /\ Live(other) /\ o # other
    /\ Step(move_assign(Now, o, other), [Call("move_assign", o) EXCEPT !.src = other])

Assign(o, S, A) ==
    /\ Live(o)
    /\ Step(assign(Now, o, S, A), [Call("assign", o) EXCEPT !.arg = S])

AppendView(o, S, A) ==
    /\ Live(o)
    /\ Step(append(Now, o, S, A), [Call("append", o) EXCEPT !.arg = S])

PushBack(o, c, A) ==
    /\ Live(o)
    /\ Step(push_back(Now, o, c, A), [Call("push_back", o) EXCEPT !.arg = <<c>>])

Resize(o, count, character, A) ==
    /\ Live(o)
    /\ Step(resize(Now, o, count, character, A), [Call("resize", o) EXCEPT !.count = count, !.fill = character])

Erase(o, pos, count) ==
    /\ Live(o) /\ pos <= size(Now, o)
    /\ Step(erase(Now, o, pos, count), [Call("erase", o) EXCEPT !.pos = pos, !.count = count])

Clear(o) ==
    /\ Live(o)
    /\ Step(clear(Now, o), Call("clear", o))

Destroy(o) ==
    /\ Live(o)
    /\ Step(dtor(Now, o), Call("dtor", o))

Swap(o, other) ==
    /\ Live(o) /\ Live(other) /\ o # other
    /\ Step(swap(Now, o, other), [Call("swap", o) EXCEPT !.src = other])

\* The caller takes the result of the call; the next call can start.
Return ==
    /\ last.op # "none"
    /\ last' = NoLast
    /\ UNCHANGED <<str, heap, fuel, vm>>

\* erase counts: a few bytes, or "to the end".
Counts == 0..MaxLen \cup {sz_size_max}

\* Construction and destruction of the strings `objs`.
Life(objs, views, allocs) ==
    \/ \E o \in objs : DefaultConstruct(o)
    \/ \E o \in objs, S \in views, A \in allocs : ViewConstruct(o, S, A)
    \/ \E o \in objs : Destroy(o)

\* The operations that change one string in place.
Edit(objs, views, chars, fills, allocs) ==
    \/ \E o \in objs, S \in views, A \in allocs : Assign(o, S, A)
    \/ \E o \in objs, S \in views, A \in allocs : AppendView(o, S, A)
    \/ \E o \in objs, c \in chars, A \in allocs : PushBack(o, c, A)
    \/ \E o \in objs, count \in 0..MaxLen, character \in fills, A \in allocs : Resize(o, count, character, A)
    \/ \E o \in objs, pos \in 0..MaxLen, count \in Counts : Erase(o, pos, count)
    \/ \E o \in objs : Clear(o)

\* The operations between two strings.
Transfer(allocs) ==
    \/ \E o \in Objs, other \in Objs, A \in allocs : CopyConstruct(o, other, A)
    \/ \E o \in Objs, other \in Objs : MoveConstruct(o, other)
    \/ \E o \in Objs, other \in Objs, A \in allocs : CopyAssign(o, other, A)
    \/ \E o \in Objs, other \in Objs : MoveAssign(o, other)

\* One string "a", every input.
Next == Life({"a"}, Views, Allocs) \/ Edit({"a"}, Views, Char, Byte, Allocs) \/ Return

Spec == Init /\ [][Next]_vars

\* Two strings, constructed, copied and moved into each other and destroyed,
\* one of them also changed in place; fewer inputs.
FewViews == {<< >>, <<1>>, <<1, 2>>, <<2, 1, 2>>}
NextPair == Life(Objs, FewViews, Allocs) \/ Edit({"a"}, FewViews, Char, {1}, Allocs) \/ Transfer(Allocs) \/ Return

InitPair ==
    /\ str = [o \in Objs |-> NoString]
    /\ heap = [b \in Blocks |-> FreeBlock]
    /\ last = NoLast
    /\ fuel = MaxCalls
    /\ vm = NoScan

SpecPair == InitPair /\ [][NextPair]_vars

\* Two strings, constructed, swapped and destroyed.
Exchange == \E o \in Objs, other \in Objs : Swap(o, other)
NextSwap == Life(Objs, FewViews, Allocs) \/ Exchange \/ Return

SpecSwap == InitPair /\ [][NextSwap]_vars

\* ------------------------------------------------------- the view machine
\* One call on a view, a character set or a range at a time.  A range is
\* walked as `for (auto match : range)` and std::distance(begin(), end()) walk
\* it: from begin(), while the iterator differs from end(), take *it and ++it.
Letters == {97, 98}
Haystacks == StringsOver(Letters, MaxHay)
Needles == StringsOver(Letters, MaxNeedle) \ {<< >>}
Sets == SUBSET Letters
\* Texts of 'a' 'z' 'Z' '0' '9' ' ' '\v' DEL '!' and a byte above 127.
Texts == StringsOver({97, 122, 90, 48, 57, 32, 11, 127, 33, 200}, MaxText)
\* The needles of find_all and rfind_all, the empty one among them.
AnyNeedles == StringsOver(Letters, MaxNeedle)
\* A loop over a range is followed for MaxSteps turns.
MaxSteps == MaxHay + 2

ViewCall(op, buf) == [NoScan EXCEPT !.op = op, !.buf = buf]

\* A call is made when no call was made before; it leaves its result in vm.
Idle == vm.op = "none"
Scan(call) ==
    /\ vm' = call
    /\ UNCHANGED <<str, heap, last, fuel>>

\* A range of the given class on the whole of H, and its begin() and end().
Open(op, range, H, m) ==
    [ViewCall(op, H) EXCEPT !.range = range, !.m = m, !.it = range_begin(range, H, whole(H), m),
                            !.end = range_end(range, H, whole(H), m)]

\* string_view::find_all(n, i), string_view::rfind_all(n, i)
FindAll(H, N, overlap) ==
    /\ Idle
    /\ Scan([Open("find_all", "matches", H, matcher_find(N, overlap)) EXCEPT !.needle = N, !.overlap = overlap])

RFindAll(H, N, overlap) ==
    /\ Idle
    /\ Scan([Open("rfind_all", "rmatches", H, matcher_rfind(N, overlap)) EXCEPT !.needle = N, !.overlap = overlap])

\* string_view::split(n), string_view::rsplit(n): the matcher is built from
\* the needle alone
Split(H, N) ==
    /\ Idle
    /\ Scan([Open("split", "splits", H, matcher_find(N, TRUE)) EXCEPT !.needle = N, !.overlap = TRUE])

RSplit(H, N) ==
    /\ Idle
    /\ Scan([Open("rsplit", "rsplits", H, matcher_rfind(N, TRUE)) EXCEPT !.needle = N, !.overlap = TRUE])

\* string_view::split(character_set), string_view::rsplit(character_set)
SplitSet(H, S) ==
    /\ Idle
    /\ Scan([Open("split_set", "splits", H, matcher_find_first_of(S)) EXCEPT !.set = S])

RSplitSet(H, S) ==
    /\ Idle
    /\ Scan([Open("rsplit_set", "rsplits", H, matcher_find_last_of(S)) EXCEPT !.set = S])

\* The namespace-level find_all, rfind_all, split and rsplit(h, n,
\* interleaving): each returns {h, n}, so the matcher is built from the
\* needle alone, and rsplit returns a range_rmatches.
Factories == {"find_all", "rfind_all", "split", "rsplit"}
Factory(name, H, N, interleaving) ==
    /\ Idle
    /\ LET range == CASE name = "find_all" -> "matches"
                      [] name = "rfind_all" -> "rmatches"
                      [] name = "split" -> "splits"
                      [] name = "rsplit" -> "rmatches"
           m == IF name \in {"find_all", "split"} THEN matcher_find(N, TRUE) ELSE matcher_rfind(N, TRUE)
       IN  Scan([Open("sz_" \o name, range, H, m) EXCEPT !.needle = N, !.overlap = interleaving])

Differs == not_equal(vm.range, vm.it, vm.end)

\* The body of the loop: *it, then ++it.
Yield ==
    /\ vm.range \in Ranges /\ ~vm.done /\ ~vm.it.asserted /\ Differs
    /\ Len(vm.out) < MaxSteps
    /\ vm' = [vm EXCEPT !.out = Append(@, deref(vm.range, vm.m, vm.it)),
                        !.it = increment(vm.range, vm.buf, vm.m, vm.it)]
    /\ UNCHANGED <<str, heap, last, fuel>>

\* The iterator equals end(): the loop is over.
Finish ==
    /\ vm.range \in Ranges /\ ~vm.done /\ ~vm.it.asserted /\ ~Differs
    /\ vm' = [vm EXCEPT !.done = TRUE]
    /\ UNCHANGED <<str, heap, last, fuel>>

Partition(H, P) ==
    /\ Idle
    /\ Scan([ViewCall("partition", H) EXCEPT !.needle = P, !.part = partition(H, whole(H), P)])

PartitionSet(H, S) ==
    /\ Idle
    /\ Scan([ViewCall("partition_set", H) EXCEPT !.set = S, !.part = partition_set(H, whole(H), S)])

RPartition(H, P) ==
    /\ Idle
    /\ Scan([ViewCall("rpartition", H) EXCEPT !.needle = P, !.part = rpartition(H, whole(H), P)])

RPartitionSet(H, S) ==
    /\ Idle
    /\ Scan([ViewCall("rpartition_set", H) EXCEPT !.set = S, !.part = rpartition_set(H, whole(H), S)])

StringRPartition(H, P) ==
    /\ Idle
    /\ Scan([ViewCall("string_rpartition", H) EXCEPT !.needle = P, !.part = string_rpartition(H, whole(H), P)])

FindFrom(H, N, pos) ==
    /\ Idle /\ pos <= Len(H)
    /\ Scan([ViewCall("find_from", H) EXCEPT !.needle = N, !.pos = pos, !.index = find_from(H, whole(H), N, pos)])

Strip(H, S) ==
    /\ Idle
    /\ Scan([ViewCall("strip", H) EXCEPT !.set = S, !.slice = strip(H, whole(H), S)])

\* V.strip(S).strip(S): strip on the view the first strip returned.
StripAgain ==
    /\ vm.op = "strip"
    /\ vm' = [vm EXCEPT !.op = "strip_again", !.slice = strip(vm.buf, vm.slice, vm.set), !.first = vm.slice]
    /\ UNCHANGED <<str, heap, last, fuel>>

Union(A, B) ==
    /\ Idle
    /\ Scan([ViewCall("union", << >>) EXCEPT !.set = A, !.other = B, !.cs = operator_or(A, B)])

Inverted(A) ==
    /\ Idle
    /\ Scan([ViewCall("inverted", << >>) EXCEPT !.set = A, !.cs = inverted(A)])

Classify(predicate, V) ==
    /\ Idle
    /\ Scan([ViewCall(predicate, V) EXCEPT !.truth = classify(predicate, V, whole(V))])

\* One of the predefined sets, read whole.
Predefined(name) ==
    /\ Idle
    /\ Scan([ViewCall(name, alphabet(name)) EXCEPT !.cs = predefined_set(name)])

NextView ==
    \/ \E H \in Haystacks, N \in AnyNeedles, overlap \in BOOLEAN : FindAll(H, N, overlap)
    \/ \E H \in Haystacks, N \in AnyNeedles, overlap \in BOOLEAN : RFindAll(H, N, overlap)
    \/ \E H \in Haystacks, N \in Needles : Split(H, N)
    \/ \E H \in Haystacks, N \in Needles : RSplit(H, N)
    \/ \E H \in Haystacks, S \in Sets : SplitSet(H, S)
    \/ \E H \in Haystacks, S \in Sets : RSplitSet(H, S)
    \/ \E name \in Factories, H \in Haystacks, N \in Needles, interleaving \in BOOLEAN :
           Factory(name, H, N, interleaving)
    \/ Yield
    \/ Finish
    \/ \E H \in Haystacks, P \in Needles : Partition(H, P)
    \/ \E H \in Haystacks, S \in Sets : PartitionSet(H, S)
    \/ \E H \in Haystacks, P \in Needles : RPartition(H, P)
    \/ \E H \in Haystacks, S \in Sets : RPartitionSet(H, S)
    \/ \E H \in Haystacks, P \in Needles : StringRPartition(H, P)
    \/ \E H \in Haystacks, N \in Needles, pos \in 0..MaxHay : FindFrom(H, N, pos)
    \/ \E H \in Haystacks, S \in Sets : Strip(H, S)
    \/ StripAgain
    \/ \E A \in Sets, B \in Sets : Union(A, B)
    \/ \E A \in Sets : Inverted(A)
    \/ \E predicate \in Predicates, V \in Texts : Classify(predicate, V)
    \/ \E name \in Alphabets : Predefined(name)

SpecView == Init /\ [][NextView]_vars

\* A loop over a range goes on while its iterator differs from end().
SpecViewFair == SpecView /\ WF_vars(Yield) /\ WF_vars(Finish)

\* ------------------------------------------------------------ the claims
Concat(s, u) == s \o u
Moves == {"move_ctor", "move_assign"}
Copies == {"copy_ctor", "copy_assign"}
Edits == {"assign", "append", "push_back", "resize", "erase", "clear"}
Inline(s, o) == s.start = StackPtr(o)
OnHeap(s) == s.start.kind = "heap"
Tgt == last.tgt
Src == last.src

\* C1: after dest = move(src) of two distinct strings (move construction or
\* move assignment) src is empty and dest reads back exactly the bytes src
\* held before, for an inline and for a heap source.
C1_MoveLeavesSourceEmpty ==
    last.op \in Moves =>
        /\ size(Now, Src) = 0
        /\ str[Src].length = 0
        /\ view(Now, Tgt) = last.was[Src]

\* A move assignment from a non-empty inline source onto a string that owned
\* a heap block.
C1_Witness ==
    /\ last.op = "move_assign"
    /\ Inline(last.pre[Src], Src) /\ last.was[Src] # << >>
    /\ OnHeap(last.pre[Tgt])

\* A move construction from a non-empty heap source.
C1_WitnessHeap ==
    /\ last.op = "move_ctor"
    /\ OnHeap(last.pre[Src]) /\ last.was[Src] # << >>

C3_AssignRoundTrip ==
    (last.op = "assign" /\ last.ok) =>
        /\ size(Now, Tgt) = Len(last.arg)
        /\ view(Now, Tgt) = last.arg

\* C4 (as claimed): after append(V) succeeds on a string holding X the string
\* holds X followed by V, and no byte was written past the capacity.
C4_AppendConcatenates ==
    (last.op = "append" /\ last.ok) =>
        /\ size(Now, Tgt) = Len(last.was[Tgt]) + Len(last.arg)
        /\ view(Now, Tgt) = Concat(last.was[Tgt], last.arg)
        /\ ~last.overrun

\* C5: a successful push_back(c) leaves the bytes held before followed by c,
\* one byte longer, below, at and above the inline capacity -- so n calls on
\* the empty string leave c_1..c_n -- and a string constructed from a view
\* reads back that view.
C5_PushBackAndConstruct ==
    /\ (last.op = "push_back" /\ last.ok) =>
        /\ view(Now, Tgt) = Concat(last.was[Tgt], last.arg)
        /\ size(Now, Tgt) = Len(last.was[Tgt]) + 1
        /\ ~last.overrun
    /\ (last.op = "view_ctor" /\ last.ok) =>
        /\ view(Now, Tgt) = last.arg
        /\ ~last.overrun

\* The push_back that takes a full inline string to the heap.
C5_Witness ==
    /\ last.op = "push_back" /\ last.ok
    /\ Inline(last.pre[Tgt], Tgt) /\ Len(last.was[Tgt]) = sz_string_stack_space - 1
    /\ OnHeap(str[Tgt]) /\ size(Now, Tgt) = sz_string_stack_space

\* C6 (as claimed): after resize(count, f) succeeds on a string holding X the
\* length is count, the first min(|X|, count) bytes are those of X and every
\* byte from index |X| on is f.
C6_ResizeFills ==
    (last.op = "resize" /\ last.ok) =>
        LET X == last.was[Tgt]
            v == view(Now, Tgt)
        IN  /\ Len(v) = last.count
            /\ \A i \in 1..Len(v) : v[i] = IF i <= Len(X) THEN X[i] ELSE last.fill

\* The start, the capacity and the storage state of the target are those of
\* before the call, and the allocator was not called.
SameStorage ==
    /\ str[Tgt].start = last.pre[Tgt].start
    /\ sz_string_unpack(Now, Tgt).space = sz_string_unpack(World(last.pre, heap), Tgt).space
    /\ last.allocs = 0 /\ last.frees = 0

\* C7: erase(pos, count) with pos <= size() removes exactly the bytes
\* [pos, min(pos + count, size())), in place and without the allocator;
\* clear() leaves length 0 in the same storage, and a second clear() changes
\* nothing.
C7_EraseInPlace ==
    /\ last.op = "erase" =>
        LET X == last.was[Tgt]
            stop == Min(last.pos + last.count, Len(X))
        IN  /\ view(Now, Tgt) = Concat(SubSeq(X, 1, last.pos), SubSeq(X, stop + 1, Len(X)))
            /\ SameStorage
    /\ last.op = "clear" =>
        /\ size(Now, Tgt) = 0
        /\ SameStorage
        /\ clear(Now, Tgt).w = Now

\* An erase from the middle of a heap string.
C7_Witness ==
    /\ last.op = "erase"
    /\ last.pos > 0 /\ last.count > 0 /\ last.pos + last.count < Len(last.was[Tgt])
    /\ OnHeap(str[Tgt])

\* The length the call asks for.
Wanted ==
    CASE last.op = "assign" -> Len(last.arg)
      [] last.op = "resize" -> last.count
      [] OTHER -> Len(last.was[Tgt]) + Len(last.arg)

\* C8 (as claimed): an operation takes a string from the inline to the heap
\* state only when the value it asks for needs more than the inline buffer,
\* and no erase, clear, resize or assign takes a heap string back.
C8_LeavesInlineOnlyWhenNeeded ==
    (last.op \in Edits /\ last.ok) =>
        /\ (Inline(last.pre[Tgt], Tgt) /\ OnHeap(str[Tgt])) => Wanted + 1 > sz_string_stack_space
        /\ OnHeap(last.pre[Tgt]) => OnHeap(str[Tgt])

\* C9 (as claimed): after dest = src by copy dest reads back the bytes of
\* src and the two do not share a block; a later change of one leaves the
\* bytes of the other as they were.
C9_CopyIsDeep ==
    /\ (last.op \in Copies /\ last.ok) =>
        /\ view(Now, Tgt) = last.was[Src]
        /\ view(Now, Src) = last.was[Src]
        /\ str[Tgt].start # str[Src].start
    /\ last.op \in Edits =>
        \A o \in Objs \ {Tgt} : Live(o) => view(Now, o) = last.was[o]

\* The fields describe the storage: the length is below the capacity, and the
\* start is the own inline buffer or an allocated block of `space` bytes.
Consistent(o) ==
    LET u == sz_string_unpack(Now, o)
    IN  /\ u.length < u.space
        /\ \/ str[o].start = StackPtr(o)
           \/ /\ OnHeap(str[o])
              /\ heap[str[o].start.blk].used
              /\ heap[str[o].start.blk].size = u.space

\* C10: when the allocator answers null to assign, append, push_back or a
\* growing resize, the try_ form returns false, the throwing form raises
\* bad_alloc, and the fields stay consistent.
C10_RefusedGrowthFails ==
    (last.op \in {"assign", "append", "push_back", "resize"} /\ last.refused) =>
        /\ ~last.ok
        /\ last.threw
        /\ Consistent(Tgt)

\* A refused assign onto a heap string.
C10_Witness ==
    /\ last.op = "assign" /\ last.refused
    /\ OnHeap(last.pre[Tgt])

\* ------------------------------------------------- the claims about views
\* Where the needle N stands in H, as a set and in ascending order, and the
\* occurrences a left-to-right scan takes when each one starts at or after
\* the end of the one before.
OccursAt(H, N, p) == p + Len(N) <= Len(H) /\ SubSeq(H, p + 1, p + Len(N)) = N
Offsets(H, N) == {p \in 0..Len(H) : OccursAt(H, N, p)}
SetOffsets(H, S) == {p \in 0..(Len(H) - 1) : H[p + 1] \in S}

RECURSIVE Ascending(_)
Ascending(S) == IF S = {} THEN << >> ELSE <<Minimum(S)>> \o Ascending(S \ {Minimum(S)})

RECURSIVE Greedy(_, _, _)
Greedy(H, N, from) ==
    LET later == {p \in Offsets(H, N) : p >= from}
    IN  IF later = {} THEN << >> ELSE <<Minimum(later)>> \o Greedy(H, N, Minimum(later) + Len(N))

RECURSIVE Join(_, _)
Join(parts, D) ==
    IF Len(parts) = 0 THEN << >>
    ELSE IF Len(parts) = 1 THEN parts[1]
    ELSE parts[1] \o D \o Join(Tail(parts), D)

\* The bytes of the slices yielded so far.
Gaps == [i \in 1..Len(vm.out) |-> Bytes(vm.buf, vm.out[i])]
AAAA == <<97, 97, 97, 97>>
AA == <<97, 97>>

C11_Wanted == IF vm.overlap THEN Ascending(Offsets(vm.buf, vm.needle)) ELSE Greedy(vm.buf, vm.needle, 0)

\* C11: for a non-empty needle, find_all(N, overlap = true) yields in
\* ascending order a slice of |N| bytes at every offset where N stands in H,
\* and find_all(N, overlap = false) yields the leftmost non-overlapping
\* occurrences; "aaaa" with "aa" gives the offsets 0, 1, 2 and 0, 2.
C11_FindAllOffsets ==
    (vm.op = "find_all" /\ vm.needle # << >>) =>
        /\ Len(vm.out) <= Len(C11_Wanted)
        /\ \A i \in 1..Len(vm.out) : vm.out[i] = string_view(C11_Wanted[i], Len(vm.needle))
        /\ vm.done => Len(vm.out) = Len(C11_Wanted)
        /\ (vm.done /\ vm.buf = AAAA /\ vm.needle = AA) =>
               [i \in 1..Len(vm.out) |-> vm.out[i].start] = IF vm.overlap THEN <<0, 1, 2>> ELSE <<0, 2>>

\* "aaaa".find_all("aa", false) walked to its end: two matches.
C11_Witness ==
    vm.op = "find_all" /\ vm.done /\ ~vm.overlap /\ vm.buf = AAAA /\ vm.needle = AA /\ Len(vm.out) = 2

\* "aaaa".find_all("aa", true) walked to its end: three matches.
C11_WitnessOverlap ==
    vm.op = "find_all" /\ vm.done /\ vm.overlap /\ vm.buf = AAAA /\ vm.needle = AA /\ Len(vm.out) = 3

\* C12: for a non-empty delimiter D, the gaps H.split(D) yields, joined in
\* order with D between consecutive gaps, are H byte for byte.
C12_SplitComplement == (vm.op = "split" /\ vm.done) => Join(Gaps, vm.needle) = vm.buf

\* A two-byte delimiter found twice: three gaps.
C12_Witness == vm.op = "split" /\ vm.done /\ Len(vm.needle) = 2 /\ Len(vm.out) = 3

\* C13: for a non-empty delimiter D, walking H.split(D) from begin() to end()
\* yields exactly N + 1 gaps, N being the number of non-overlapping
\* occurrences of D found left to right; with no match the one gap is H; the
\* range is never empty, and size(), which is this walk, is N + 1.
C13_SplitCount ==
    vm.op = "split" =>
        /\ ~splits_empty
        /\ Len(vm.out) <= Len(Greedy(vm.buf, vm.needle, 0)) + 1
        /\ vm.done => Len(vm.out) = Len(Greedy(vm.buf, vm.needle, 0)) + 1
        /\ (vm.done /\ Offsets(vm.buf, vm.needle) = {}) => vm.out = <<whole(vm.buf)>>

\* "".split(D) walked to its end: one gap, the empty one.
C13_Witness == vm.op = "split" /\ vm.done /\ vm.buf = << >> /\ Len(vm.out) = 1

\* A haystack that ends with the delimiter, walked to its end.
C13_WitnessTrailing ==
    vm.op = "split" /\ vm.done /\ Len(vm.out) = 2 /\ vm.buf = <<98>> \o vm.needle

C14_Split(hits, length) ==
    IF hits = {}
    THEN /\ vm.part.before = whole(vm.buf)
         /\ empty(vm.part.match) /\ empty(vm.part.after)
    ELSE /\ Bytes(vm.buf, vm.part.before) \o Bytes(vm.buf, vm.part.match) \o Bytes(vm.buf, vm.part.after) = vm.buf
         /\ vm.part.before = string_view(0, Minimum(hits))
         /\ vm.part.match = string_view(Minimum(hits), length)

\* C14: partition(P), P a substring or a character set, returns (before,
\* match, after) with before + match + after = H and match the first
\* occurrence of P in H, and (H, empty, empty) when P does not occur.
C14_PartitionLaw ==
    /\ vm.op = "partition" => C14_Split(Offsets(vm.buf, vm.needle), Len(vm.needle))
    /\ vm.op = "partition_set" => C14_Split(SetOffsets(vm.buf, vm.set), 1)

\* A two-byte pattern found with bytes on both sides of it.
C14_Witness ==
    vm.op = "partition" /\ Len(vm.needle) = 2 /\ vm.part.before.length > 0 /\ vm.part.after.length > 0

\* A character-set pattern found after the first byte.
C14_WitnessSet == vm.op = "partition_set" /\ vm.part.before.length > 0 /\ vm.part.match.length = 1

C15_Split(hits, length) ==
    Cardinality(hits) > 1 =>
        /\ vm.part.before = string_view(0, Maximum(hits))
        /\ vm.part.match = string_view(Maximum(hits), length)
        /\ vm.part.after = string_view(Maximum(hits) + length, Len(vm.buf) - Maximum(hits) - length)

\* C15: when P occurs in H more than once, rpartition(P) of a view or of an
\* owning string splits around the last occurrence of P: before is all that
\* precedes the last match, and after holds no occurrence of P.
C15_RPartitionLast ==
    /\ vm.op \in {"rpartition", "string_rpartition"} =>
           /\ C15_Split(Offsets(vm.buf, vm.needle), Len(vm.needle))
           /\ Cardinality(Offsets(vm.buf, vm.needle)) > 1 =>
                  Offsets(Bytes(vm.buf, vm.part.after), vm.needle) = {}
    /\ vm.op = "rpartition_set" =>
           /\ C15_Split(SetOffsets(vm.buf, vm.set), 1)
           /\ Cardinality(SetOffsets(vm.buf, vm.set)) > 1 =>
                  SetOffsets(Bytes(vm.buf, vm.part.after), vm.set) = {}

\* C16: for pos <= size(), find(N, pos) returns npos, or the index in H
\* itself of the first occurrence of N at or after pos; find(N, 0) = find(N).
C16_FindFromIndex ==
    vm.op = "find_from" =>
        LET later == {p \in Offsets(vm.buf, vm.needle) : p >= vm.pos}
        IN  /\ vm.index = IF later = {} THEN npos ELSE Minimum(later)
            /\ vm.index # npos =>
                   /\ vm.pos <= vm.index /\ vm.index + Len(vm.needle) <= Len(vm.buf)
                   /\ Bytes(vm.buf, substr(whole(vm.buf), vm.index, Len(vm.needle))) = vm.needle
            /\ vm.pos = 0 => vm.index = find(vm.buf, whole(vm.buf), vm.needle)

\* What is left of H without its longest prefix and its longest suffix of
\* members of S.
Stripped(H, S) ==
    LET keep == {i \in 1..Len(H) : H[i] \notin S}
    IN  IF keep = {} THEN << >> ELSE SubSeq(H, Minimum(keep), Maximum(keep))

\* C17: strip(S) returns the slice of V left after removing the maximal
\* prefix and the maximal suffix of members of S, the empty one when every
\* byte is a member, and V.strip(S).strip(S) = V.strip(S).
C17_StripLaw ==
    /\ vm.op = "strip" => Bytes(vm.buf, vm.slice) = Stripped(vm.buf, vm.set)
    /\ vm.op = "strip_again" =>
           /\ Bytes(vm.buf, vm.first) = Stripped(vm.buf, vm.set)
           /\ Bytes(vm.buf, vm.slice) = Bytes(vm.buf, vm.first)

\* A second strip of a view that lost bytes at both ends and kept some.
C17_Witness ==
    /\ vm.op = "strip_again"
    /\ vm.first.start > 0 /\ vm.first.length > 0 /\ vm.first.start + vm.first.length < Len(vm.buf)

\* A strip of a non-empty view all of whose bytes are members.
C17_WitnessAll == vm.op = "strip" /\ Len(vm.buf) > 0 /\ vm.slice.length = 0

\* C18: (A | B).contains(c) iff A.contains(c) or B.contains(c); the union is
\* commutative; inverted() contains c iff the original does not.
C18_UnionAndInverse ==
    /\ vm.op = "union" =>
           /\ \A c \in AllBytes : contains(vm.cs, c) <=> (contains(vm.set, c) \/ contains(vm.other, c))
           /\ vm.cs = operator_or(vm.other, vm.set)
    /\ vm.op = "inverted" => \A c \in AllBytes : contains(vm.cs, c) <=> ~contains(vm.set, c)

\* The ASCII classes, by code.
LowerClass == 97..122
UpperClass == 65..90
DigitClass == 48..57
SpaceClass == {9, 10, 11, 12, 13, 32}
PrintableClass == 32..126 \cup SpaceClass
ControlClass == 0..31 \cup {127}
ClassOf(predicate) ==
    CASE predicate = "isalpha" -> LowerClass \cup UpperClass
      [] predicate = "isalnum" -> LowerClass \cup UpperClass \cup DigitClass
      [] predicate = "isascii" -> ControlClass \cup PrintableClass
      [] predicate = "isdigit" -> DigitClass
      [] predicate = "islower" -> LowerClass
      [] predicate = "isprintable" -> PrintableClass
      [] predicate = "isspace" -> SpaceClass
      [] predicate = "isupper" -> UpperClass

\* C19: a classification predicate is true iff every byte of V is in the
\* predicate's ASCII class and, except for isascii and isprintable, V is not
\* empty; isascii and isprintable are true on the empty view.
C19_Classification ==
    vm.op \in Predicates =>
        (vm.truth <=> /\ \A i \in 1..Len(vm.buf) : vm.buf[i] \in ClassOf(vm.op)
                      /\ vm.op \in {"isascii", "isprintable"} \/ vm.buf # << >>)

\* C20: swap(a, b) exchanges the two values for every combination of inline
\* and heap strings, and afterwards every string whose start is in an inline
\* buffer has it at its own inline buffer.
C20_SwapExchanges ==
    last.op = "swap" =>
        /\ view(Now, Tgt) = last.was[Src]
        /\ view(Now, Src) = last.was[Tgt]
        /\ \A o \in {Tgt, Src} : str[o].start.kind = "stack" => str[o].start = StackPtr(o)

\* C21: each predefined character set contains exactly the bytes listed in
\* its source array, the last one included.
C21_PredefinedSets ==
    vm.op \in Alphabets =>
        \A c \in AllBytes : contains(vm.cs, c) <=> (\E i \in 1..Len(vm.buf) : vm.buf[i] = c)

C22_Witness == vm.range = "rsplits" /\ Len(vm.out) = 2 /\ ~vm.done /\ ~Differs

C22_WitnessNoMatch == vm.op = "find_all" /\ vm.out = << >> /\ vm.buf # << >> /\ ~Differs

\* A split iterator on the empty slice with reached_tail_ false.
TrailingGap == vm.range = "splits" /\ ~vm.done /\ empty(vm.it.remaining) /\ ~vm.it.reached_tail

\* H ends with the delimiter; and the last delimiter a left-to-right scan
\* takes ends H.
EndsWithDelimiter ==
    IF vm.m.kind = "find" THEN /\ Len(vm.buf) >= Len(vm.needle)
                               /\ SubSeq(vm.buf, Len(vm.buf) - Len(vm.needle) + 1, Len(vm.buf)) = vm.needle
    ELSE vm.buf # << >> /\ vm.buf[Len(vm.buf)] \in vm.set
LastDelimiterEndsH ==
    IF vm.m.kind = "find" THEN LET taken == Greedy(vm.buf, vm.needle, 0)
                               IN  taken # << >> /\ taken[Len(taken)] + Len(vm.needle) = Len(vm.buf)
    ELSE vm.buf # << >> /\ vm.buf[Len(vm.buf)] \in vm.set

\* C23 as stated: whenever H ends with the delimiter, the walk of split
\* comes to the iterator on the empty slice with reached_tail_ false, so the
\* last gap it yields is the empty one.
C23_EndsWithDelimiter ==
    (vm.range = "splits" /\ vm.done /\ EndsWithDelimiter) => vm.out[Len(vm.out)] = string_view(Len(vm.buf), 0)

\* C23: when the last delimiter a left-to-right scan takes ends H, the split
\* iterator comes to a state whose remaining slice is empty and whose
\* reached_tail_ is false; there it differs from end() and from end_sentinel,
\* dereferences to the empty slice, and equals end() after one more advance;
\* "ba".split("a") yields "b" and the empty gap.
C23_TrailingGap ==
    /\ [](TrailingGap =>
             /\ Differs /\ ~equals_sentinel("splits", vm.it)
             /\ empty(splits_deref(vm.it))
             /\ ~splits_ne(splits_next(vm.buf, vm.m, vm.it), vm.end)
             /\ equals_sentinel("splits", splits_next(vm.buf, vm.m, vm.it)))
    /\ []((vm.range = "splits" /\ vm.done /\ LastDelimiterEndsH) =>
             vm.out[Len(vm.out)] = string_view(Len(vm.buf), 0))
    /\ []((vm.op = "split" /\ vm.done /\ vm.buf = <<98, 97>> /\ vm.needle = <<97>>) =>
             Gaps = <<(<<98>>), << >>>>)
    /\ (vm.range = "splits" /\ vm.out = << >> /\ ~vm.done /\ LastDelimiterEndsH) ~> TrailingGap

\* The iterator of "ba".split("a") after it yielded "b".
C23_Witness == TrailingGap /\ vm.op = "split" /\ vm.buf = <<98, 97>> /\ vm.needle = <<97>> /\ Len(vm.out) = 1

Reverse(s) == [i \in 1..Len(s) |-> s[Len(s) + 1 - i]]
\* All that a walk of the range from begin() to end() yields.
Walk(range, buf, m) == to(range, buf, m, range_begin(range, buf, whole(buf), m), range_end(range, buf, whole(buf), m))
IsPrefix(s, t) == Len(s) <= Len(t) /\ \A i \in 1..Len(s) : s[i] = t[i]

\* C24: for a non-empty needle N and overlaps allowed, rfind_all(N) yields
\* the matches of find_all(N) in reverse order, and every slice it yields
\* lies inside H, has |N| bytes and shows the bytes of N.
C24_RFindAllReverses ==
    (vm.op = "rfind_all" /\ vm.overlap /\ vm.needle # << >>) =>
        LET forward == Walk("matches", vm.buf, matcher_find(vm.needle, TRUE))
        IN  /\ IsPrefix(vm.out, Reverse(forward))
            /\ vm.done => vm.out = Reverse(forward)
            /\ \A i \in 1..Len(vm.out) :
                   /\ 0 <= vm.out[i].start /\ vm.out[i].start + vm.out[i].length <= Len(vm.buf)
                   /\ vm.out[i].length = Len(vm.needle)
                   /\ Bytes(vm.buf, vm.out[i]) = vm.needle

\* "aaaa".rfind_all("aa") walked to its end: the offsets 2, 1, 0.
C24_Witness ==
    /\ vm.op = "rfind_all" /\ vm.overlap /\ vm.done /\ vm.buf = AAAA /\ vm.needle = AA
    /\ [i \in 1..Len(vm.out) |-> vm.out[i].start] = <<2, 1, 0>>

\* C25: rsplit(S), S a character set, yields the gaps of split(S) in reverse
\* order: N + 1 gaps for N delimiter bytes, the first of them the suffix after
\* the last delimiter byte, never none, and the last of them the empty gap
\* when H begins with a delimiter byte.
C25_RSplitReverses ==
    vm.op = "rsplit_set" =>
        LET forward == Walk("splits", vm.buf, matcher_find_first_of(vm.set))
            hits == SetOffsets(vm.buf, vm.set)
        IN  /\ IsPrefix(vm.out, Reverse(forward))
            /\ vm.out = << >> => Differs
            /\ vm.out # << >> =>
                   vm.out[1] = IF hits = {} THEN whole(vm.buf)
                               ELSE string_view(Maximum(hits) + 1, Len(vm.buf) - Maximum(hits) - 1)
            /\ vm.done =>
                   /\ vm.out = Reverse(forward)
                   /\ Len(vm.out) = Cardinality(hits) + 1
                   /\ 0 \in hits => vm.out[Len(vm.out)] = string_view(0, 0)

\* A haystack that begins with a delimiter byte and holds another one later,
\* walked to its end: three gaps.
C25_Witness ==
    vm.op = "rsplit_set" /\ vm.done /\ Len(vm.out) = 3 /\ 0 \in SetOffsets(vm.buf, vm.set) /\ vm.out[1].length > 0

\* The buffer holds length + 1 bytes at least and a zero right after the
\* contents: of a string record s whose inline bytes are its own, and of the
\* string o as it is now.
TerminatedInline(s) ==
    s.start.kind = "stack" /\ s.length + 1 <= sz_string_stack_space /\ s.chars[s.length + 1] = 0
Terminated(o) ==
    LET u == sz_string_unpack(Now, o)
        buf == BufferAt(Now, data(Now, o))
    IN  u.length + 1 <= u.space /\ u.length + 1 <= Len(buf) /\ buf[u.length + 1] = 0

\* C26: a successful construction, assign, append, push_back, resize, erase
\* or clear, made on a string whose buffer was terminated, leaves capacity
\* >= length + 1 and the zero at index size() of the buffer data() returns.
C26_Terminated ==
    /\ (last.op \in {"ctor", "view_ctor", "copy_ctor"} /\ last.ok) => Terminated(Tgt)
    /\ (last.op \in {"assign", "append", "push_back", "resize", "erase", "clear"} /\ last.ok
            /\ TerminatedInline(last.pre[Tgt])) => Terminated(Tgt)

\* The live strings whose start is the block b.
Owners(b) == {o \in Objs : Live(o) /\ str[o].start = HeapPtr(b)}

\* C27: over construction, copy, move construction, move assignment (also
\* onto a destination that owns a heap block) and destruction, every block
\* in use belongs to exactly one live string, so none is left when all
\* strings are destroyed; no live string points to a block that was freed;
\* and no block is freed twice.
C27_BlocksOwnedOnce ==
    /\ \A b \in Blocks : heap[b].used => Cardinality(Owners(b)) = 1
    /\ \A o \in Objs : (Live(o) /\ OnHeap(str[o])) => heap[str[o].start.blk].used
    /\ ~last.badfree
    /\ (\A o \in Objs : ~Live(o)) => \A b \in Blocks : ~heap[b].used

\* A move assignment from a heap string onto a heap string: one block freed.
C27_Witness ==
    /\ last.op = "move_assign" /\ OnHeap(last.pre[Tgt]) /\ OnHeap(last.pre[Src])
    /\ last.frees = 1 /\ OnHeap(str[Tgt])

\* Both strings destroyed after one of them owned a block.
C27_WitnessDestroyed == last.op = "dtor" /\ OnHeap(last.pre[Tgt]) /\ \A o \in Objs : ~Live(o)

\* C28: for every H and every N, the empty needle included, and either
\* overlap policy, a find_all or rfind_all iterator advanced from begin() is
\* at end() after |H| advances at most.
C28_AdvancesBounded == vm.op \in {"find_all", "rfind_all"} => Len(vm.out) <= Len(vm.buf)

\* C29: for every haystack and every non-empty needle or character set, no
\* construction and no advance from a position that is not end(), of a match,
\* reverse-match, split or reverse-split iterator, calls remove_prefix(n) or
\* remove_suffix(n) with n > size(); the remaining slice stays inside H.
C29_RemoveWithinSize ==
    (vm.range \in Ranges /\ (vm.m.kind \in {"find", "rfind"} => vm.needle # << >>)) =>
        /\ ~vm.it.asserted /\ ~vm.end.asserted
        /\ 0 <= vm.it.remaining.start /\ 0 <= vm.it.remaining.length
        /\ vm.it.remaining.start + vm.it.remaining.length <= Len(vm.buf)

\* A reverse-split iterator advanced twice, to the start of H.
C29_Witness == vm.range = "rsplits" /\ vm.it.reached_tail /\ Len(vm.out) = 2 /\ Len(vm.needle) = 2

\* A match iterator advanced past a two-byte match with overlaps forbidden.
C29_WitnessMatch == vm.op = "find_all" /\ ~vm.overlap /\ Len(vm.needle) = 2 /\ Len(vm.out) = 2

\* What the string_view member of the same name yields for the same needle
\* and flag.
MemberWalk ==
    CASE vm.op = "sz_find_all" -> Walk("matches", vm.buf, matcher_find(vm.needle, vm.overlap))
      [] vm.op = "sz_rfind_all" -> Walk("rmatches", vm.buf, matcher_rfind(vm.needle, vm.overlap))
      [] vm.op = "sz_split" -> Walk("splits", vm.buf, matcher_find(vm.needle, TRUE))
      [] vm.op = "sz_rsplit" -> Walk("rsplits", vm.buf, matcher_rfind(vm.needle, TRUE))

\* C30: the namespace-level find_all, rfind_all, split and rsplit yield the
\* slices the string_view members yield for the same needle and flag: with
\* interleaving = false find_all and rfind_all yield matches that do not
\* overlap, and rsplit yields the N + 1 gaps in reverse order.
C30_FactoriesAgree ==
    vm.op \in {"sz_find_all", "sz_rfind_all", "sz_split", "sz_rsplit"} =>
        /\ IsPrefix(vm.out, MemberWalk)
        /\ vm.done => vm.out = MemberWalk
        /\ (vm.op \in {"sz_find_all", "sz_rfind_all"} /\ ~vm.overlap) =>
               \A i, j \in 1..Len(vm.out) :
                   i # j => \/ vm.out[i].start + vm.out[i].length <= vm.out[j].start
                            \/ vm.out[j].start + vm.out[j].length <= vm.out[i].start
        /\ (vm.op = "sz_rsplit" /\ vm.done) => Len(vm.out) = Len(Greedy(vm.buf, vm.needle, 0)) + 1

====
